---- MODULE Spec2Model ----
(***************************************************************************)
(* Model of the dashboard data path of backend/dashboard: the source       *)
(* selector, the spreadsheet reader (utils.read_excel_data and the remote  *)
(* strategies of read_google_sheet_as_excel), the writer                   *)
(* (utils.update_remark) and the four endpoint handlers of                 *)
(* views.DashboardViewSet.                                                 *)
(*                                                                         *)
(* The source of record is either the local workbook (variable file) or    *)
(* the first worksheet of the remote spreadsheet (variable sheet).         *)
(* pandas, gspread and requests are modelled by what the calls made in     *)
(* utils.py do to a table of cells:                                        *)
(*   - a cell value is a record: a string, a date or NaN (an empty cell);  *)
(*   - a DataFrame is [cols, rows], the rows being sequences of cells in   *)
(*     column order;                                                       *)
(*   - the worksheet is a rectangular grid of strings, row 1 the headers;  *)
(*     a cell written below the last row extends the grid with blank rows. *)
(***************************************************************************)
EXTENDS Integers, Sequences, FiniteSets, TLC

VARIABLES cfg, file, sheet, last, pc, snap, req, nsave

vars == <<cfg, file, sheet, last, pc, snap, req, nsave>>

(* ----------------------------- bounds --------------------------------- *)

\* Largest number of data rows of an initial local workbook or worksheet.
MaxRows == 2

(* ------------------------------ cells --------------------------------- *)

StrV(s) == [k |-> "str", s |-> s, y |-> 0, m |-> 0, d |-> 0]
DateV(y, m, d) == [k |-> "date", s |-> "", y |-> y, m |-> m, d |-> d]
NaN == [k |-> "nan", s |-> "", y |-> 0, m |-> 0, d |-> 0]
None == [k |-> "none", s |-> "", y |-> 0, m |-> 0, d |-> 0]

Range(s) == {s[i] : i \in 1..Len(s)}

\* list.index(x) + 1: the 1-based position of the first occurrence of x.
IndexOf(s, x) == CHOOSE i \in 1..Len(s) : s[i] = x /\ \A j \in 1..(i - 1) : s[j] # x

Min(a, b) == IF a < b THEN a ELSE b
Max(a, b) == IF a > b THEN a ELSE b

\* pd.isna(value)
isna(v) == v.k = "nan"

Pad2(n) == IF n < 10 THEN "0" \o ToString(n) ELSE ToString(n)

\* value.strftime('%Y-%m-%d')
strftime(v) == StrV(ToString(v.y) \o "-" \o Pad2(v.m) \o "-" \o Pad2(v.d))

(* ---------------------- configuration (decouple) ---------------------- *)

\* A URL is the sequence of its characters.
UrlValid == <<"h", "/", "d", "/", "K", "/", "e">>
UrlNoD == <<"h", "/", "K", "/", "e">>
UrlEmptyId == <<"h", "/", "d", "/", "/", "e">>
UrlAbsent == <<>>

Urls == {UrlValid, UrlNoD, UrlEmptyId, UrlAbsent}

\* sub in s  /  s.find(sub): the first position where sub occurs in s, 0 if none.
Find(s, sub) ==
    LET hits == {i \in 1..(Len(s) - Len(sub) + 1) :
                   \A j \in 1..Len(sub) : s[i + j - 1] = sub[j]}
    IN IF hits = {} THEN 0 ELSE CHOOSE i \in hits : \A j \in hits : i <= j

\* s.split(sep)[0]
SplitFirst(s, sep) ==
    LET p == Find(s, sep) IN IF p = 0 THEN s ELSE SubSeq(s, 1, p - 1)

\* s.split(sep)[1], for s that contains sep.
SplitSecond(s, sep) ==
    LET p == Find(s, sep)
        rest == SubSeq(s, p + Len(sep), Len(s))
    IN SplitFirst(rest, sep)

NoSheetId == <<"<None>">>

\* get_google_sheet_id(): the text between '/d/' and the next '/', None without '/d/'.
get_google_sheet_id(url) ==
    IF Find(url, <<"/", "d", "/">>) # 0
        THEN SplitFirst(SplitSecond(url, <<"/", "d", "/">>), <<"/">>)
        ELSE NoSheetId

\* "not sheet_id": None and the empty string are both falsy.
SheetIdFalsy(id) == id = NoSheetId \/ id = <<>>

use_google_sheets(c) == c.use_gs

\* get_gspread_client(): None unless client_email and private_key are both set;
\* an exception of from_service_account_info / authorize also yields None.
get_gspread_client(c) ==
    IF c.client_email = "" \/ c.private_key = "" THEN FALSE
    ELSE IF c.private_key = "garbled" THEN FALSE
    ELSE TRUE

(* --------------------------- DataFrames ------------------------------- *)

NoFrame == [cols |-> <<>>, rows |-> <<>>]

HasCol(df, c) == c \in Range(df.cols)

\* pd.read_excel(path): the stored table; an empty-string cell reads as NaN.
read_excel(f) ==
    [cols |-> f.cols,
     rows |-> [i \in 1..Len(f.rows) |->
                 [j \in 1..Len(f.cols) |->
                    IF f.rows[i][j] = StrV("") THEN NaN ELSE f.rows[i][j]]]]

\* A new Remark column left empty instead of defaulted.
AddRemarkColumnEmpty(df) ==
    IF HasCol(df, "Remark") THEN df
    ELSE [cols |-> Append(df.cols, "Remark"),
          rows |-> [i \in 1..Len(df.rows) |-> Append(df.rows[i], NaN)]]

\* df['Remark'] = 'Pending Email' when the column is missing (utils.py 276-278).
AddRemarkColumn(df) ==
    IF HasCol(df, "Remark") THEN df
    ELSE [cols |-> Append(df.cols, "Remark"),
          rows |-> [i \in 1..Len(df.rows) |-> Append(df.rows[i], StrV("Pending Email"))]]

\* df.at[row_index, 'Remark'] = remark_value (row_index is 0-based).
SetRemark(df, row_index, v) ==
    [df EXCEPT !.rows[row_index + 1][IndexOf(df.cols, "Remark")] = StrV(v)]

\* df.to_excel(path, index=False): the whole table replaces the stored one.
to_excel(df) == [exists |-> TRUE, cols |-> df.cols, rows |-> df.rows]

\* A head that keeps one row too many.
headInclusive(df, n) ==
    [df EXCEPT !.rows = SubSeq(df.rows, 1, Min(Max(n, 0) + 1, Len(df.rows)))]

\* df.head(n): the first n rows; for negative n all rows but the last -n.
head(df, n) ==
    IF n >= 0 THEN [df EXCEPT !.rows = SubSeq(df.rows, 1, Min(n, Len(df.rows)))]
    ELSE [df EXCEPT !.rows = SubSeq(df.rows, 1, Max(Len(df.rows) + n, 0))]

\* df.fillna('')
fillna(df) ==
    [df EXCEPT !.rows = [i \in 1..Len(df.rows) |->
                           [j \in 1..Len(df.cols) |->
                              IF isna(df.rows[i][j]) THEN StrV("") ELSE df.rows[i][j]]]]

\* The loop of read_excel_data over one value of a record (utils.py 140-145).
ConvertValue(v) ==
    IF isna(v) THEN None
    ELSE IF v.k = "date" THEN strftime(v)
    ELSE v

\* df.to_dict('records'): one mapping from column name to value per row.
to_dict(df) ==
    [i \in 1..Len(df.rows) |->
       [c \in Range(df.cols) |-> df.rows[i][IndexOf(df.cols, c)]]]

\* utils.py 131-147: limit, fill, convert.
Normalize(df, limit) ==
    LET cut == IF limit.some /\ limit.n # 0 THEN head(df, limit.n) ELSE df
        data == to_dict(fillna(cut))
    IN [i \in 1..Len(data) |-> [c \in DOMAIN data[i] |-> ConvertValue(data[i][c])]]

(* --------------------------- the worksheet ---------------------------- *)

\* worksheet.row_values(1)
row_values1(sh) == IF Len(sh) = 0 THEN <<>> ELSE sh[1]

\* worksheet.update_cell(r, c, v) for r >= 1, c >= 1.
update_cell(sh, r, c, v) ==
    LET w == Max(c, Len(row_values1(sh)))
        grid == [i \in 1..Max(r, Len(sh)) |->
                   [j \in 1..w |->
                      IF i <= Len(sh) /\ j <= Len(sh[i]) THEN sh[i][j] ELSE ""]]
    IN [grid EXCEPT ![r][c] = v]

\* pd.DataFrame(data[1:], columns=data[0]) over worksheet.get_all_values().
FrameOfValues(sh) ==
    [cols |-> sh[1],
     rows |-> [i \in 1..(Len(sh) - 1) |-> [j \in 1..Len(sh[1]) |-> StrV(sh[i + 1][j])]]]

\* pd.read_excel over the xlsx export: blank cells are NaN, a blank header
\* cell is named "Unnamed: <position>".
FrameOfExport(sh) ==
    IF Len(sh) = 0 THEN NoFrame
    ELSE [cols |-> [j \in 1..Len(sh[1]) |->
                      IF sh[1][j] = "" THEN "Unnamed: " \o ToString(j - 1) ELSE sh[1][j]],
          rows |-> [i \in 1..(Len(sh) - 1) |->
                      [j \in 1..Len(sh[1]) |->
                         IF sh[i + 1][j] = "" THEN NaN ELSE StrV(sh[i + 1][j])]]]

(* ----------------------------- the reader ----------------------------- *)

MsgInvalidUrl == "Invalid Google Sheet URL"
MsgReadFailed == "Failed to read Google Sheet. Make sure it's shared with the service account: nmt-dashboard-service@dashboard-nmt-project.iam.gserviceaccount.com"
MsgFileNotFound == "Excel file not found at DATA_V2.xlsx"

Attempt(how, id) == [how |-> how, id |-> id]

ReadOk(df, att) == [ok |-> TRUE, exc |-> "", msg |-> "", df |-> df, attempts |-> att]
ReadErr(exc, msg, att) == [ok |-> FALSE, exc |-> exc, msg |-> msg, df |-> NoFrame, attempts |-> att]

\* A remote read that lets a failure of the authenticated read propagate.
read_google_sheet_no_fallback(c, sh, env) ==
    LET sheet_id == get_google_sheet_id(c.url)
        client == get_gspread_client(c)
        tried == IF client THEN <<Attempt("auth", sheet_id)>> ELSE <<>>
    IN IF SheetIdFalsy(sheet_id) THEN ReadErr("ValueError", MsgInvalidUrl, <<>>)
       ELSE IF client /\ env.authOK /\ Len(sh) > 0 THEN ReadOk(FrameOfValues(sh), tried)
       ELSE IF client THEN ReadErr("Exception", "No data found in Google Sheet", tried)
       ELSE IF env.pubOK
            THEN ReadOk(FrameOfExport(sh), Append(tried, Attempt("public", sheet_id)))
       ELSE ReadErr("Exception", MsgReadFailed, Append(tried, Attempt("public", sheet_id)))

\* read_google_sheet_as_excel(); env.authOK / env.pubOK say whether the
\* authenticated API calls and the public export fetch go through.
read_google_sheet_as_excel(c, sh, env) ==
    LET sheet_id == get_google_sheet_id(c.url)
        client == get_gspread_client(c)
        tried == IF client THEN <<Attempt("auth", sheet_id)>> ELSE <<>>
        authRead == client /\ env.authOK /\ Len(sh) > 0
    IN IF SheetIdFalsy(sheet_id) THEN ReadErr("ValueError", MsgInvalidUrl, <<>>)
       ELSE IF authRead THEN ReadOk(FrameOfValues(sh), tried)
       ELSE IF env.pubOK
            THEN ReadOk(FrameOfExport(sh), Append(tried, Attempt("public", sheet_id)))
       ELSE ReadErr("Exception", MsgReadFailed, Append(tried, Attempt("public", sheet_id)))

\* The source selection of read_excel_data (utils.py 119-129).
LoadFrame(c, f, sh, env) ==
    IF use_google_sheets(c) THEN read_google_sheet_as_excel(c, sh, env)
    ELSE IF ~f.exists THEN ReadErr("FileNotFoundError", MsgFileNotFound, <<>>)
    ELSE ReadOk(read_excel(f), <<Attempt("local", <<>>)>>)

\* read_excel_data(limit): the records, or the exception re-raised.
read_excel_data(c, f, sh, env, limit) ==
    LET r == LoadFrame(c, f, sh, env)
    IN [ok |-> r.ok, exc |-> r.exc, msg |-> r.msg, attempts |-> r.attempts,
        data |-> IF r.ok THEN Normalize(r.df, limit) ELSE <<>>]

(* ----------------------------- the writer ----------------------------- *)

MsgNoWrite == "Google Sheets write access not configured. Please set up service account credentials (see GOOGLE_SHEETS_WRITE_SETUP.md)"
MsgNoRemark == "Remark column not found in Google Sheet"
MsgUpdateFailed == "Failed to update Google Sheet: "
MsgRemoteOk == "Remark updated successfully in Google Sheets"
MsgLocalOk == "Remark updated successfully"
MsgNoFile == "Excel file not found"

CellWrite(r, c, v) == [row |-> r, col |-> c, value |-> v]

WriteResult(ok, msg, f, sh, att, wr) ==
    [success |-> ok, msg |-> msg, file |-> f, sheet |-> sh, attempts |-> att, writes |-> wr]

\* A sheet row that forgets the header row.
SheetRowNoHeader(row_index) == row_index + 1

\* The sheet row of data row row_index: +1 for the header, +1 for 1-based rows.
SheetRow(row_index) == row_index + 2

\* The remote branch of update_remark (utils.py 223-257); env.apiOK says whether
\* the API calls go through.
UpdateRemote(c, f, sh, env, row_index, v) ==
    LET sheet_id == get_google_sheet_id(c.url)
        opened == <<Attempt("open", sheet_id)>>
        headers == row_values1(sh)
        col == IndexOf(headers, "Remark")
        r == SheetRow(row_index)
    IN IF ~get_gspread_client(c) THEN WriteResult(FALSE, MsgNoWrite, f, sh, <<>>, <<>>)
       ELSE IF SheetIdFalsy(sheet_id) \/ ~env.apiOK
            THEN WriteResult(FALSE, MsgUpdateFailed \o "SpreadsheetNotFound", f, sh, opened, <<>>)
       ELSE IF "Remark" \notin Range(headers)
            THEN WriteResult(FALSE, MsgNoRemark, f, sh, opened, <<>>)
       ELSE IF r < 1
            THEN WriteResult(FALSE, MsgUpdateFailed \o "IncorrectCellLabel", f, sh, opened, <<>>)
       ELSE WriteResult(TRUE, MsgRemoteOk, f, update_cell(sh, r, col, v), opened,
                        <<CellWrite(r, col, v)>>)

\* The range check of update_remark (utils.py 281).
InvalidIndex(df, row_index) == row_index < 0 \/ row_index >= Len(df.rows)

\* A save that reads the workbook again instead of using the DataFrame in memory.
FrameReread(cur, loaded) == read_excel(cur)

\* The DataFrame the save works on: the one read at line 272 and held in
\* memory since; the workbook (cur) is not read again before line 291.
FrameAtSave(cur, loaded) == loaded

\* utils.py 275-294, from the DataFrame read at line 272 to the result.
UpdateLoaded(c, cur, sh, loaded, row_index, v) ==
    LET df == AddRemarkColumn(FrameAtSave(cur, loaded))
    IN IF InvalidIndex(df, row_index)
       THEN WriteResult(FALSE,
                        "Invalid row index. Valid range: 0-" \o ToString(Len(df.rows) - 1),
                        cur, sh, <<>>, <<>>)
       ELSE WriteResult(TRUE, MsgLocalOk, to_excel(SetRemark(df, row_index, v)),
                        sh, <<>>, <<>>)

\* The local branch of update_remark (utils.py 259-299) run without interruption.
UpdateLocal(c, f, sh, row_index, v) ==
    IF ~f.exists THEN WriteResult(FALSE, MsgNoFile, f, sh, <<>>, <<>>)
    ELSE UpdateLoaded(c, f, sh, read_excel(f), row_index, v)

\* update_remark(row_index, remark_value)
update_remark(c, f, sh, env, row_index, v) ==
    IF use_google_sheets(c) THEN UpdateRemote(c, f, sh, env, row_index, v)
    ELSE UpdateLocal(c, f, sh, row_index, v)

(* ------------------------- request values ----------------------------- *)

\* A value of the JSON request body: null (a missing key reads as None), an
\* integer, or a string given as the sequence of its characters.
\* (s: the characters of a string that int() may have to parse; t: a text.)
JNull == [k |-> "null", n |-> 0, s |-> <<>>, t |-> ""]
JInt(n) == [k |-> "int", n |-> n, s |-> <<>>, t |-> ""]
JStr(s) == [k |-> "str", n |-> 0, s |-> s, t |-> ""]
JText(t) == [k |-> "str", n |-> 0, s |-> <<>>, t |-> t]

Digits == <<"0", "1", "2", "3", "4", "5", "6", "7", "8", "9">>

IsDigit(ch) == ch \in Range(Digits)

DigitVal(ch) == IndexOf(Digits, ch) - 1

RECURSIVE DigitsVal(_)
DigitsVal(s) ==
    IF Len(s) = 0 THEN 0
    ELSE 10 * DigitsVal(SubSeq(s, 1, Len(s) - 1)) + DigitVal(s[Len(s)])

AllDigits(s) == Len(s) > 0 /\ \A i \in 1..Len(s) : IsDigit(s[i])

\* int(x) of a string: an optional sign and decimal digits, ValueError otherwise.
IntParses(s) ==
    IF Len(s) > 0 /\ s[1] \in {"-", "+"} THEN AllDigits(Tail(s)) ELSE AllDigits(s)

IntOf(s) ==
    IF s[1] = "-" THEN 0 - DigitsVal(Tail(s))
    ELSE IF s[1] = "+" THEN DigitsVal(Tail(s))
    ELSE DigitsVal(s)

\* int(row_index) of a request value that is not None.
IntRaises(j) == j.k = "str" /\ ~IntParses(j.s)
IntValue(j) == IF j.k = "int" THEN j.n ELSE IntOf(j.s)

\* The limit handed to read_excel_data.
Lim(n) == [some |-> TRUE, n |-> n]
NoLim == [some |-> FALSE, n |-> 0]

\* request.query_params.get('limit', 100)
DefaultLimit == 100
\* except ValueError: limit = 100
FallbackLimit == 100

\* views.py 39-43: the query parameter (absent: JNull) as an integer.
ParseLimit(q) ==
    IF q.k = "null" THEN DefaultLimit
    ELSE IF IntRaises(q) THEN FallbackLimit
    ELSE IntValue(q)

(* ---------------------------- responses ------------------------------- *)

Env(a, p, w) == [authOK |-> a, pubOK |-> p, apiOK |-> w]

Resp0 ==
    [op |-> "none", status |-> 0, success |-> FALSE, msg |-> "", count |-> 0,
     data |-> <<>>, columns |-> <<>>, total_records |-> 0, total_columns |-> 0,
     row_index |-> JNull, remark |-> JNull, limit |-> JNull, env |-> Env(TRUE, TRUE, TRUE),
     received |-> <<>>, called |-> FALSE, raised |-> FALSE,
     attempts |-> <<>>, writes |-> <<>>]

\* get_excel_info(): None for a missing workbook, {'error': ...} on an exception.
get_excel_info(c, f, sh, env) ==
    LET r == IF use_google_sheets(c) THEN read_google_sheet_as_excel(c, sh, env)
             ELSE ReadOk(read_excel(f), <<Attempt("local", <<>>)>>)
    IN IF ~use_google_sheets(c) /\ ~f.exists
       THEN [none |-> TRUE, error |-> "", total_rows |-> 0, columns |-> <<>>, attempts |-> <<>>]
       ELSE IF ~r.ok
       THEN [none |-> FALSE, error |-> r.msg, total_rows |-> 0, columns |-> <<>>,
             attempts |-> r.attempts]
       ELSE [none |-> FALSE, error |-> "", total_rows |-> Len(r.df.rows),
             columns |-> r.df.cols, attempts |-> r.attempts]

\* DashboardViewSet.stats
StatsResp(c, f, sh, env) ==
    LET info == get_excel_info(c, f, sh, env)
    IN IF ~info.none /\ info.error = ""
       THEN [Resp0 EXCEPT !.op = "stats", !.status = 200, !.env = env,
                          !.total_records = info.total_rows,
                          !.total_columns = Len(info.columns),
                          !.columns = info.columns, !.attempts = info.attempts]
       ELSE [Resp0 EXCEPT !.op = "stats", !.status = 404, !.env = env,
                          !.msg = info.error, !.attempts = info.attempts]

\* DashboardViewSet.data
DataResp(c, f, sh, env, q) ==
    LET r == read_excel_data(c, f, sh, env, Lim(ParseLimit(q)))
        base == [Resp0 EXCEPT !.op = "data", !.limit = q, !.env = env,
                              !.attempts = r.attempts]
    IN IF r.ok THEN [base EXCEPT !.status = 200, !.count = Len(r.data), !.data = r.data]
       ELSE IF r.exc = "FileNotFoundError"
            THEN [base EXCEPT !.status = 404, !.msg = r.msg, !.raised = TRUE]
       ELSE [base EXCEPT !.status = 500, !.msg = r.msg, !.raised = TRUE]

\* get_excel_stats() behind DashboardViewSet.detailed_stats: a failure is put
\* into the body as 'error'.
DetailedStatsResp(c, f, sh, env) ==
    LET r == LoadFrame(c, f, sh, env)
        base == [Resp0 EXCEPT !.op = "detailed_stats", !.status = 200, !.env = env,
                              !.attempts = r.attempts]
    IN IF r.ok THEN [base EXCEPT !.total_records = Len(r.df.rows),
                                 !.total_columns = Len(r.df.cols), !.columns = r.df.cols]
       ELSE [base EXCEPT !.msg = r.msg]

\* A presence test by truthiness: 0 and '' count as missing.
MissingFieldFalsy(row_index, remark_value) ==
    \/ row_index.k = "null" \/ (row_index.k = "int" /\ row_index.n = 0)
    \/ remark_value.k = "null" \/ (remark_value.k = "str" /\ remark_value.t = "")

\* "row_index is None or remark_value is None" (views.py 83).
MissingField(row_index, remark_value) == row_index.k = "null" \/ remark_value.k = "null"

\* DashboardViewSet.update_remark: the response and the source after it.
UpdateRemarkView(c, f, sh, env, row_index, remark_value) ==
    LET base == [Resp0 EXCEPT !.op = "update_remark", !.row_index = row_index,
                              !.remark = remark_value, !.env = env]
        w == update_remark(c, f, sh, env, IntValue(row_index), remark_value.t)
    IN IF MissingField(row_index, remark_value)
       THEN [resp |-> [base EXCEPT !.status = 400,
                                   !.msg = "row_index and remark_value are required",
                                   !.received = <<row_index, remark_value>>],
             file |-> f, sheet |-> sh]
       ELSE IF IntRaises(row_index)
       THEN [resp |-> [base EXCEPT !.status = 500, !.raised = TRUE,
                                   !.msg = "invalid literal for int() with base 10"],
             file |-> f, sheet |-> sh]
       ELSE [resp |-> [base EXCEPT !.status = IF w.success THEN 200 ELSE 400,
                                   !.called = TRUE, !.success = w.success, !.msg = w.msg,
                                   !.attempts = w.attempts, !.writes = w.writes],
             file |-> w.file, sheet |-> w.sheet]

(* ------------------------- initial sources ---------------------------- *)

\* Largest number of data rows of an initial worksheet.
MaxSheetRows == 1

NoFile == [exists |-> FALSE, cols |-> <<>>, rows |-> <<>>]

Day == DateV(2024, 1, 5)

\* The cells a column of an initial workbook may hold.
CellsOf(col) ==
    IF col = "Name" THEN {StrV("bob")}
    ELSE IF col = "When" THEN {Day, NaN}
    ELSE {StrV("old"), NaN}

LocalColumns == {<<"Name", "When">>, <<"Name", "When", "Remark">>}

RowsOver(cols) == {r \in [1..Len(cols) -> {StrV("bob"), StrV("old"), Day, NaN}] :
                     \A j \in 1..Len(cols) : r[j] \in CellsOf(cols[j])}

LocalFiles ==
    {NoFile} \cup
    UNION {UNION {{[exists |-> TRUE, cols |-> cols, rows |-> rows] :
                     rows \in [1..n -> RowsOver(cols)]} : n \in 0..MaxRows} :
           cols \in LocalColumns}

SheetHeaders == {<<"Name", "Remark">>, <<"Remark", "Name">>, <<"Name">>}

SheetRowsOver(h) == {r \in [1..Len(h) -> {"bob", "old"}] :
                       \A j \in 1..Len(h) :
                          r[j] = (IF h[j] = "Name" THEN "bob" ELSE "old")}

Sheets ==
    {<<>>} \cup
    UNION {UNION {{<<h>> \o rows : rows \in [1..n -> SheetRowsOver(h)]} :
                    n \in 0..MaxSheetRows} : h \in SheetHeaders}

LocalCfg == [use_gs |-> FALSE, url |-> UrlAbsent, client_email |-> "", private_key |-> ""]

Credentials == {<<"svc", "key">>, <<"", "key">>, <<"svc", "">>, <<"svc", "garbled">>}

RemoteCfgs == {[use_gs |-> TRUE, url |-> u, client_email |-> k[1], private_key |-> k[2]] :
                 u \in Urls, k \in Credentials}

(* ------------------------------ inputs -------------------------------- *)

\* Whether the remote calls of one request go through. Only the calls the
\* request can reach vary: the local path makes none, a bad URL stops a read
\* before any, without a client no authenticated call is made, and the public
\* export is not fetched once the authenticated read has delivered.
ReadEnvs(c, sh) ==
    IF ~use_google_sheets(c) \/ SheetIdFalsy(get_google_sheet_id(c.url))
        THEN {Env(TRUE, TRUE, TRUE)}
    ELSE IF ~get_gspread_client(c) \/ Len(sh) = 0 THEN {Env(TRUE, p, TRUE) : p \in BOOLEAN}
    ELSE {Env(TRUE, TRUE, TRUE), Env(FALSE, TRUE, TRUE), Env(FALSE, FALSE, TRUE)}

WriteEnvs(c) ==
    IF use_google_sheets(c) /\ get_gspread_client(c)
        THEN {Env(TRUE, TRUE, w) : w \in BOOLEAN}
    ELSE {Env(TRUE, TRUE, TRUE)}

\* The row indexes requested: from below the range to the first one above it.
RowIndexes(c) ==
    IF use_google_sheets(c) THEN (0 - 1)..MaxSheetRows ELSE (0 - 2)..MaxRows

Remarks == {"new", ""}

\* The (row_index, remark_value) pairs of the request bodies: every row index
\* with a remark (the empty remark on the workbook only), a missing field, and
\* a row index sent as a string.
UpdateBodies(c) ==
    {<<JInt(i), JText(t)>> :
        i \in RowIndexes(c), t \in (IF use_google_sheets(c) THEN {"new"} ELSE Remarks)}
    \cup {<<JNull, JText("new")>>, <<JInt(0), JNull>>, <<JNull, JNull>>,
          <<JStr(<<"1">>), JText("new")>>, <<JStr(<<"a">>), JText("new")>>}

LimitValues == {JNull, JStr(<<"0">>), JStr(<<"1">>), JStr(<<"-", "1">>),
                JStr(<<"1", ".", "5">>)}

(* ------------------------------ actions ------------------------------- *)

Procs == {1, 2}

Idle == [p \in Procs |-> "idle"]
NoSnap == [p \in Procs |-> [df |-> NoFrame, ver |-> 0]]
NoReq == [p \in Procs |-> [row_index |-> 0, remark |-> "", success |-> FALSE, msg |-> ""]]

Init ==
    /\ cfg \in {LocalCfg} \cup RemoteCfgs
    /\ file \in (IF use_google_sheets(cfg) THEN {NoFile} ELSE LocalFiles)
    /\ sheet \in (IF use_google_sheets(cfg) THEN Sheets ELSE {<<>>})
    /\ last = Resp0
    /\ pc = Idle
    /\ snap = NoSnap
    /\ req = NoReq
    /\ nsave = 0

Stats ==
    /\ \E env \in ReadEnvs(cfg, sheet) : \E resp \in {StatsResp(cfg, file, sheet, env)} : last' = resp
    /\ UNCHANGED <<cfg, file, sheet, pc, snap, req, nsave>>

Data ==
    /\ \E env \in ReadEnvs(cfg, sheet), q \in LimitValues :
          \E resp \in {DataResp(cfg, file, sheet, env, q)} : last' = resp
    /\ UNCHANGED <<cfg, file, sheet, pc, snap, req, nsave>>

DetailedStats ==
    /\ \E env \in ReadEnvs(cfg, sheet) :
          \E resp \in {DetailedStatsResp(cfg, file, sheet, env)} : last' = resp
    /\ UNCHANGED <<cfg, file, sheet, pc, snap, req, nsave>>

UpdateRemark ==
    /\ \E env \in WriteEnvs(cfg), b \in UpdateBodies(cfg) :
          \E out \in {UpdateRemarkView(cfg, file, sheet, env, b[1], b[2])} :
             /\ last' = out.resp
             /\ file' = out.file
             /\ sheet' = out.sheet
    /\ UNCHANGED <<cfg, pc, snap, req, nsave>>

Next == Stats \/ Data \/ DetailedStats \/ UpdateRemark

Spec == Init /\ [][Next]_vars

(* ------------- two update_remark requests on the workbook ------------- *)

\* utils.py 259-273 of request p: the existence check and pd.read_excel.
Load(p) ==
    /\ pc[p] = "idle"
    /\ \E i \in RowIndexes(cfg), t \in Remarks :
          IF ~file.exists
          THEN /\ req' = [req EXCEPT ![p] = [row_index |-> i, remark |-> t,
                                             success |-> FALSE, msg |-> MsgNoFile]]
               /\ pc' = [pc EXCEPT ![p] = "done"]
               /\ snap' = snap
          ELSE /\ req' = [req EXCEPT ![p] = [row_index |-> i, remark |-> t,
                                             success |-> FALSE, msg |-> ""]]
               /\ pc' = [pc EXCEPT ![p] = "loaded"]
               /\ snap' = [snap EXCEPT ![p] = [df |-> read_excel(file), ver |-> nsave]]
    /\ UNCHANGED <<cfg, file, sheet, last, nsave>>

\* utils.py 275-294 of request p: the column, the range check, the cell and
\* df.to_excel.
Save(p) ==
    /\ pc[p] = "loaded"
    /\ \E w \in {UpdateLoaded(cfg, file, sheet, snap[p].df, req[p].row_index, req[p].remark)} :
          /\ file' = w.file
          /\ nsave' = IF w.success THEN nsave + 1 ELSE nsave
          /\ req' = [req EXCEPT ![p].success = w.success, ![p].msg = w.msg]
    /\ pc' = [pc EXCEPT ![p] = "done"]
    /\ UNCHANGED <<cfg, sheet, last, snap>>

InitConc == Init /\ ~use_google_sheets(cfg)

NextConc == \E p \in Procs : Load(p) \/ Save(p)

SpecConc == InitConc /\ [][NextConc]_vars

(* ------------------------------ C4 ------------------------------------ *)

RemarkAt(df, row_index) == df.rows[row_index + 1][IndexOf(df.cols, "Remark")]

\* The workbook as a read shows it (an empty cell as '').
Shown(f) == fillna(read_excel(f))

\* Request p saves after request q has saved, both having loaded the workbook
\* before either save, for different rows, both successfully.
LateSave(p, q) ==
    /\ p # q
    /\ pc[p] = "loaded" /\ pc'[p] = "done" /\ req'[p].success
    /\ pc[q] = "done" /\ req[q].success
    /\ snap[p].ver = 0 /\ snap[q].ver = 0
    /\ req[p].row_index # req[q].row_index

\* C4: when two local update_remark calls for different valid rows both read
\* the workbook before either writes it, the later save leaves the workbook
\* with the later writer's Remark and, in the earlier writer's row, the value
\* the later writer had loaded (the earlier edit is gone); both report success.
C4_LastWriterWins ==
    [][\A p \in Procs, q \in Procs :
         LateSave(p, q) =>
            LET now == Shown(file')
                mine == fillna(AddRemarkColumn(snap[p].df))
            IN /\ RemarkAt(now, req[p].row_index) = StrV(req[p].remark)
               /\ RemarkAt(now, req[q].row_index) = RemarkAt(mine, req[q].row_index)
               /\ RemarkAt(Shown(file), req[q].row_index) = StrV(req[q].remark)
               /\ req'[p].success /\ req'[q].success]_vars

\* Both requests are done and succeeded, and the workbook no longer holds the
\* Remark one of them wrote.
C4_Witness ==
    \E p \in Procs, q \in Procs :
       /\ p # q /\ pc[p] = "done" /\ pc[q] = "done"
       /\ req[p].success /\ req[q].success
       /\ snap[p].ver = 0 /\ snap[q].ver = 0
       /\ req[p].row_index # req[q].row_index
       /\ req[q].remark = "new"
       /\ RemarkAt(Shown(file), req[q].row_index) # StrV("new")
       /\ RemarkAt(Shown(file), req[p].row_index) = StrV(req[p].remark)

(* ------------------- what the claims talk about ----------------------- *)

\* The request of the step just taken was an update_remark that reached the writer.
WriterRan == last'.op = "update_remark" /\ last'.called

\* The row index and the remark the writer was given.
GivenIndex == IntValue(last'.row_index)
GivenRemark == last'.remark.t

\* The number of data rows of the source of record.
TotalRows(c, f, sh) ==
    IF use_google_sheets(c) THEN Max(Len(sh) - 1, 0) ELSE Len(f.rows)

\* The records a read without a limit returns, before and after the step.
ReadBefore(env) == read_excel_data(cfg, file, sheet, env, NoLim)
ReadAfter(env) == read_excel_data(cfg, file', sheet', env, NoLim)

(* ------------------------------ C1 ------------------------------------ *)

Writable(env) ==
    IF use_google_sheets(cfg)
    THEN /\ get_gspread_client(cfg)
         /\ ~SheetIdFalsy(get_google_sheet_id(cfg.url))
         /\ env.apiOK
         /\ "Remark" \in Range(row_values1(sheet))
    ELSE file.exists

\* C2 (as claimed): update_remark with row_index < 0 or row_index >= total_rows
\* leaves the source of record unchanged and returns a failure whose message
\* names the valid range, whichever source is selected.
C2_OutOfRangeRejected ==
    [][(WriterRan /\ Writable(last'.env)
        /\ (GivenIndex < 0 \/ GivenIndex >= TotalRows(cfg, file, sheet))) =>
         /\ file' = file
         /\ sheet' = sheet
         /\ ~last'.success
         /\ last'.msg = "Invalid row index. Valid range: 0-"
                           \o ToString(TotalRows(cfg, file, sheet) - 1)]_vars

(* ------------------------------ C3 ------------------------------------ *)

\* The DataFrame the last request acquired, and its records without a limit.
Acquired == LoadFrame(cfg, file, sheet, last.env).df
AllRecords == Normalize(Acquired, NoLim)

DataServed == last.op = "data" /\ last.status = 200

\* The limit the claim gives a query parameter: its integer value, 100 when it
\* does not parse as one (or is absent).
ClaimedLimit(q) == IF q.k = "null" \/ IntRaises(q) THEN 100 ELSE IntValue(q)

Served(n, total) ==
    IF n > 0 THEN Min(n, total)
    ELSE IF n = 0 THEN total
    ELSE Max(total + n, 0)

OnlyCellChanged(r, c) ==
    \A i \in 1..Len(sheet) : \A j \in 1..Len(sheet[i]) :
       (i # r \/ j # c) =>
          /\ i <= Len(sheet') /\ j <= Len(sheet'[i])
          /\ sheet'[i][j] = sheet[i][j]

\* C5 (as claimed): the remote update_remark writes nothing and fails with
\* WriteUnavailable without a credential bundle, writes nothing and fails with
\* ColumnNotFound without a "Remark" header, and otherwise writes exactly one
\* cell, at sheet row row_index + 2 and the 1-based position of "Remark"; no
\* other cell is touched and no row is added or removed.
C5_RemoteSingleCell ==
    [][(WriterRan /\ use_google_sheets(cfg)) =>
         LET headers == row_values1(sheet)
             reached == ~SheetIdFalsy(get_google_sheet_id(cfg.url)) /\ last'.env.apiOK
         IN /\ ~get_gspread_client(cfg) =>
                  /\ last'.writes = <<>> /\ sheet' = sheet
                  /\ ~last'.success /\ last'.msg = MsgNoWrite
            /\ (get_gspread_client(cfg) /\ reached /\ "Remark" \notin Range(headers)) =>
                  /\ last'.writes = <<>> /\ sheet' = sheet
                  /\ ~last'.success /\ last'.msg = MsgNoRemark
            /\ (get_gspread_client(cfg) /\ reached /\ "Remark" \in Range(headers)) =>
                  /\ last'.writes = <<CellWrite(GivenIndex + 2, IndexOf(headers, "Remark"),
                                                GivenRemark)>>
                  /\ OnlyCellChanged(GivenIndex + 2, IndexOf(headers, "Remark"))
                  /\ Len(sheet') = Len(sheet)]_vars

(* ------------------------------ C6 ------------------------------------ *)

ReadOps == {"stats", "data", "detailed_stats"}

RemoteRead == use_google_sheets(cfg) /\ last.op \in ReadOps

\* The read of the last request failed / failed with the sharing guidance.
ReadFailed == last.msg # ""
Hows == [k \in 1..Len(last.attempts) |-> last.attempts[k].how]

\* The authenticated read was made and did not deliver a table.
AuthReadFailed ==
    /\ Len(Hows) > 0 /\ Hows[1] = "auth"
    /\ ~last.env.authOK \/ Len(sheet) = 0

\* C6: a remote read tries the authenticated read first, and only with a
\* credential bundle; a failure of it is not surfaced and is followed by the
\* public-export read of the same sheet identifier; the read fails with the
\* sharing guidance only when the public-export read failed too; the local
\* workbook is never consulted.
C6_RemoteReadOrder ==
    RemoteRead =>
       LET id == get_google_sheet_id(cfg.url)
           auth == <<Attempt("auth", id)>>
           public == <<Attempt("public", id)>>
       IN /\ last.attempts \in {<<>>, auth, public, auth \o public}
          /\ (Len(Hows) > 0 /\ Hows[1] = "auth") => get_gspread_client(cfg)
          /\ (get_gspread_client(cfg) /\ ~SheetIdFalsy(id)) => Hows[1] = "auth"
          /\ AuthReadFailed =>
                /\ last.attempts = auth \o public
                /\ ReadFailed <=> ~last.env.pubOK
          /\ last.msg = MsgReadFailed =>
                /\ Hows[Len(Hows)] = "public"
                /\ ~last.env.pubOK
          /\ (ReadFailed /\ ~SheetIdFalsy(id)) => last.msg = MsgReadFailed

\* The authenticated read failed and the public export delivered the table.
C6_Witness ==
    /\ RemoteRead /\ last.op = "data"
    /\ AuthReadFailed /\ ~last.env.authOK
    /\ last.status = 200 /\ last.count >= 1

(* ------------------------------ C7 ------------------------------------ *)

\* C7: the update_remark endpoint answers 400, echoing both received fields and
\* without calling the writer, when row_index or remark_value is missing;
\* otherwise it answers 500 when an exception was raised and the writer's
\* verdict when none was: 200 exactly on success, 400 on a failure result.
C7_EndpointStatus ==
    last.op = "update_remark" =>
       IF last.row_index = JNull \/ last.remark = JNull
       THEN /\ last.status = 400
            /\ last.received = <<last.row_index, last.remark>>
            /\ ~last.called /\ last.writes = <<>> /\ last.attempts = <<>>
       ELSE /\ last.status \in {200, 400, 500}
            /\ last.status = 500 <=> last.raised
            /\ ~last.raised => last.called
            /\ last.status = 200 <=> (last.called /\ last.success)
            /\ last.status = 400 <=> (last.called /\ ~last.success)

\* Row 0 is updated: the index 0 is present although it is falsy.
C7_Witness ==
    /\ last.op = "update_remark"
    /\ last.row_index = JInt(0) /\ last.remark = JText("")
    /\ last.status = 200

(* ------------------------------ C8 ------------------------------------ *)

LocalEnv == Env(TRUE, TRUE, TRUE)

\* C8: a successful update_remark(row_index, v) on a workbook without a Remark
\* column gives it one, "Pending Email" in every row but row_index and v there;
\* stats then reports one column more and as many records as before.
C8_RemarkColumnCreated ==
    [][(WriterRan /\ last'.success /\ ~use_google_sheets(cfg)
        /\ file.exists /\ ~HasCol(file, "Remark")) =>
         \A after \in {ReadAfter(LocalEnv).data},
            sb \in {StatsResp(cfg, file, sheet, LocalEnv)},
            sa \in {StatsResp(cfg, file', sheet', LocalEnv)} :
            /\ HasCol(file', "Remark")
            /\ Len(after) = Len(file.rows)
            /\ \A r \in 1..Len(after) :
                  after[r]["Remark"] = IF r = GivenIndex + 1 THEN StrV(GivenRemark)
                                       ELSE StrV("Pending Email")
            /\ sb.status = 200 /\ sa.status = 200
            /\ sa.total_columns = sb.total_columns + 1
            /\ sa.total_records = sb.total_records]_vars

\* The update that created the column: one row holds the remark, another the default.
C8_Witness ==
    /\ last.op = "update_remark" /\ last.success /\ ~use_google_sheets(cfg)
    /\ Len(file.rows) >= 2 /\ HasCol(file, "Remark")
    /\ RemarkAt(file, IntValue(last.row_index)) = StrV("new")
    /\ \A r \in 0..(Len(file.rows) - 1) :
          r # IntValue(last.row_index) => RemarkAt(file, r) = StrV("Pending Email")

(* ------------------------------ C9 ------------------------------------ *)

\* The request of the last step used the source.
UsedSource == last.op \in ReadOps \/ (last.op = "update_remark" /\ last.called)

\* C9 (as claimed): with the remote flag set and a URL that is absent or has no
\* /d/ segment, every operation that uses the source fails with "Invalid Google
\* Sheet URL" before any remote read or write is attempted.
C9_InvalidUrlEverywhere ==
    (use_google_sheets(cfg) /\ cfg.url \in {UrlAbsent, UrlNoD} /\ UsedSource) =>
       /\ last.msg = MsgInvalidUrl
       /\ last.attempts = <<>>
       /\ last.writes = <<>>

(* ------------------------------ C10 ----------------------------------- *)

\* The value the claim gives a cell of the acquired table.
ClaimedValue(v) ==
    IF isna(v) THEN None
    ELSE IF v = Day THEN StrV("2024-01-05")
    ELSE v

\* C10 (as claimed): in the records of a read a missing cell is null, a date
\* cell its YYYY-MM-DD string, every other cell unchanged; the records of a
\* read with a limit are the first ones of the read without it.
C10_NullForMissing ==
    DataServed =>
       /\ \A i \in 1..Len(last.data) : \A c \in Range(Acquired.cols) :
             last.data[i][c] = ClaimedValue(Acquired.rows[i][IndexOf(Acquired.cols, c)])
       /\ last.data = SubSeq(AllRecords, 1, Len(last.data))

====
